---- MODULE Spec2Model ----
(***************************************************************************)
(* CSV ingestion of the EPICS backend: the POST /csv/upload route,         *)
(* processCSV (controllers/csvDB.controller.js) and the two store queries  *)
(* recordExists / insertRecord (db/queries.js) against the process_data    *)
(* table.  Every 'data' callback is an async function that the stream does *)
(* not await, so the callbacks of one run and of concurrent runs           *)
(* interleave at their awaits.                                             *)
(***************************************************************************)
EXTENDS Integers, Sequences, FiniteSets, TLC

\* ------------------------------------------------------------------ bounds
\* Number of POST /csv/upload requests the model follows.
MaxRuns == 2

Runs == 1..MaxRuns

\* ------------------------------------------------------------- CSV rows
\* The twelve columns named by recordExists / insertRecord.
Fields ==
  {"type_h", "type_l", "type_m", "tool_wear", "rotation_speed", "torque",
   "air_temp", "process_temp", "temp_diff", "power",
   "prediction_label", "prediction_score"}

\* Columns the table declares with a numeric type; prediction_label is VARCHAR.
NumericFields == Fields \ {"prediction_label"}

\* A row as csv-parser hands it to the 'data' callback: a mapping from the
\* header names present in the line to the cell texts.
RowA ==
  [type_h |-> "0", type_l |-> "1", type_m |-> "0", tool_wear |-> "150.5",
   rotation_speed |-> "1500", torque |-> "42.3", air_temp |-> "298.5",
   process_temp |-> "308.7", temp_diff |-> "10.2", power |-> "6650.5",
   prediction_label |-> "No Failure", prediction_score |-> "0.95"]

\* RowA with another torque: differs from RowA in that one field only.
RowB == [RowA EXCEPT !.torque = "42.4"]

\* RowA with a non-numeric torque cell.
RowM == [RowA EXCEPT !.torque = "abc"]

\* RowA with an empty machine-type cell.
RowT == [RowA EXCEPT !.type_h = ""]

\* RowA from a file whose header has no temp_diff, power, prediction_label
\* and prediction_score columns.
RowN ==
  [f \in Fields \ {"temp_diff", "power", "prediction_label", "prediction_score"}
     |-> RowA[f]]

\* A line that yields an object with no keys.
RowE == [f \in {} |-> ""]

\* The contents sensor_data.csv may have.
Files ==
  { <<RowA, RowA>>, <<RowA, RowB>>, <<RowE, RowA>>, <<RowT, RowB>>,
    <<RowM, RowA>>, <<RowN>> }

\* ---------------------------------------------------------- Record Store
\* Texts PostgreSQL accepts as input of a numeric column, with the value
\* each denotes (written canonically).
NumericInput(s) ==
  CASE s = "42.30" -> "42.3"
    [] s \in {"0", "1", "150.5", "1500", "42.3", "42.4", "298.5", "308.7",
              "10.2", "6650.5", "0.95"} -> s
    [] OTHER -> "invalid"

\* The query parameters node-pg sends for a row: record.<field> for each of
\* the twelve fields, an undefined property being sent as NULL (absent here).
Params(record) == [f \in (DOMAIN record) \cap Fields |-> record[f]]

\* PostgreSQL rejects a statement one of whose numeric parameters is not the
\* text of a number ("invalid input syntax").
ValidParams(p) ==
  \A f \in (DOMAIN p) \cap NumericFields : NumericInput(p[f]) # "invalid"

\* The column values a parameter list denotes (NULL columns are absent).
PgRow(p) ==
  [f \in DOMAIN p |-> IF f \in NumericFields THEN NumericInput(p[f]) ELSE p[f]]

\* SQL "col = $n": true only if both sides are non-NULL and equal.
SqlEq(s, v, f) == f \in DOMAIN s /\ f \in DOMAIN v /\ s[f] = v[f]

\* The WHERE clause of recordExists: the conjunction over the twelve columns.
Matches(s, v) == \A f \in Fields : SqlEq(s, v, f)


\* ------------------------------------------------------------------ state
VARIABLES
  csvFile,          \* rows of sensor_data.csv, in file order
  uniqueKey,        \* the table has a unique index over the twelve columns
  store,            \* process_data: the stored rows, in id order
  alive,            \* the Node process is running
  promise,          \* per run: state of the promise processCSV returned
  result,           \* per run: the value the promise was settled with
  response,         \* per run: the HTTP response of POST /csv/upload
  recordsToInsert,  \* per run: the array of csvDB.controller.js line 7
  pos,              \* per run: number of rows the stream has emitted
  pc,               \* per run and row: where the row's 'data' callback is
  cancelled,        \* per run: the client has aborted the upload request
  sensorsPc,        \* GET /api/sensors: where the handler is
  sensorsData,      \* GET /api/sensors: what the getAllData query settled with
  sensorsResponse,  \* GET /api/sensors: the response sent
  sensorData,       \* MLModelVisualizer: the sensorData prop
  inflight,         \* makePrediction calls in their 800 ms wait: the prop each captured
  locals,           \* data, tempDiff, power, riskScore of the last finished call
  prediction,       \* MLModelVisualizer: the prediction state
  isLoading,        \* MLModelVisualizer: the isLoading state
  modelStatus       \* MLModelVisualizer: the modelStatus state

ingestVars ==
  <<csvFile, uniqueKey, store, alive, promise, result, response,
    recordsToInsert, pos, pc, cancelled>>

sensorsVars == <<sensorsPc, sensorsData, sensorsResponse>>

mlVars == <<sensorData, inflight, locals, prediction, isLoading, modelStatus>>

vars == <<ingestVars, mlVars, sensorsVars>>

NoResult == [pending |-> TRUE]
NoResponse == [status |-> 0]

\* No getAllData query has settled yet.
NoRows == [none |-> TRUE]

\* Callback positions: "idle" (row not emitted yet), "recordExists" and
\* "insertRecord" (awaiting that query), and the ways a callback ends.
Pending == {"recordExists", "insertRecord"}
Threw == {"unavailable", "invalid", "conflict"}
Finished == {"skipped", "exists", "inserted"} \cup Threw

\* --------------------------------------------------- MLModelVisualizer
\* Numbers of makePrediction are kept exact as integers: temperatures in
\* tenths of a kelvin, tool wear in minutes, torque in Nm, power in whole
\* watts, and a score s as s * ScoreDen.
ScoreDen == 150000

\* Math.PI as the fraction PiNum / PiDen.
PiNum == 355
PiDen == 113

\* makePrediction calls the model follows while they wait.
MaxInFlight == 1

ToolWears == {0, 50, 100, 250}
AirTemps == {2980}
ProcessTemps == {2950, 3095, 3096}
Speeds == {1500}
Torques == {0, 42}

\* The values the sensorData prop may take.
Readings ==
  [tool_wear : ToolWears, air_temperature : AirTemps,
   process_temperature : ProcessTemps, rotational_speed : Speeds,
   torque : Torques]

\* sensorData is undefined.
NoData == [absent |-> TRUE]

\* The data makePrediction draws with Math.random when no prop is given
\* (lines 62-68).
RandomReadings ==
  {d \in Readings :
     /\ d.air_temperature >= 2980 /\ d.air_temperature < 3030
     /\ d.process_temperature >= 3080 /\ d.process_temperature < 3180
     /\ d.rotational_speed >= 1400 /\ d.rotational_speed < 1600
     /\ d.torque >= 35 /\ d.torque < 55
     /\ d.tool_wear >= 0 /\ d.tool_wear < 250}

\* confidence = 0.85 + Math.random() * 0.1, in thousandths (line 89).
Confidences == {850, 900, 949}

Min(a, b) == IF a <= b THEN a ELSE b
Max(a, b) == IF a >= b THEN a ELSE b

\* Line 70, with the differential raised to 0 when it is negative.
tempDiffClamped(data) ==
  Max(data.process_temperature - data.air_temperature, 0)

\* Line 70.
tempDiff(data) == data.process_temperature - data.air_temperature

\* Line 71, rounded down to whole watts.
power(data) ==
  (2 * PiNum * data.rotational_speed * data.torque) \div (PiDen * 60)

\* Lines 73-77 with each factor scaled to [0, 1] and then weighted.
riskScoreWeighted(data) ==
  Min(240 * data.tool_wear, 60000)
    + Min(Max(375 * (tempDiff(data) - 80), 0), 45000)
    + Min(3 * power(data), 45000)

\* Lines 73-77 with the tool-wear term subtracted.
riskScoreFalling(data) ==
  Min(Max(375 * (tempDiff(data) - 80), 0), 45000)
    + Min(3 * power(data), 45000)
    + 60000 - Min(600 * data.tool_wear, 60000)

\* Lines 73-77 with riskScore kept across calls: a tenth of the probability
\* shown is carried into the next score.
riskScoreCarried(data) ==
  Min(600 * data.tool_wear, 60000)
    + Min(Max(1250 * (tempDiff(data) - 80), 0), 45000)
    + Min(10 * power(data), 45000)
    + (IF "failure_probability" \in DOMAIN prediction
       THEN prediction.failure_probability \div 10 ELSE 0)

\* Lines 73-77: min(tool_wear / 250, 0.4) + min(max(tempDiff - 8, 0) / 12, 0.3)
\* + min(power / 15000, 0.3).
riskScore(data) ==
  Min(600 * data.tool_wear, 60000)
    + Min(Max(1250 * (tempDiff(data) - 80), 0), 45000)
    + Min(10 * power(data), 45000)

\* Line 79 without the clamp.
failureProbabilityUnclamped(score) == score

\* Line 79: Math.min(riskScore, 0.99).
failureProbability(score) == Min(score, 148500)

\* Lines 80-84 with exclusive lower edges.
riskLevelExclusive(p) ==
  IF p > 105000 THEN "critical"
  ELSE IF p > 75000 THEN "high"
  ELSE IF p > 45000 THEN "medium"
  ELSE "low"

\* Lines 80-84 with the medium band starting at 0.4, the warning edge of
\* lines 105-107.
riskLevelMediumAtWarning(p) ==
  IF p >= 105000 THEN "critical"
  ELSE IF p >= 75000 THEN "high"
  ELSE IF p >= 60000 THEN "medium"
  ELSE "low"

\* Lines 80-84.
riskLevel(p) ==
  IF p >= 105000 THEN "critical"
  ELSE IF p >= 75000 THEN "high"
  ELSE IF p >= 45000 THEN "medium"
  ELSE "low"

\* Lines 105-107.
statusOf(p) ==
  IF p >= 105000 THEN "critical"
  ELSE IF p >= 60000 THEN "warning"
  ELSE "healthy"

\* Lines 90-96, in hundredths.
featureImportance ==
  [tool_wear |-> 35, temperature_diff |-> 25, power |-> 20, torque |-> 12,
   rotational_speed |-> 8]

\* Cost of one planned maintenance and of one unplanned failure.
MaintenanceCost == 2050
FailureCost == 10300

\* The flag read off the four-level label instead of the score.
FailureRiskByLabel(score) == riskLevel(score) # "low"

\* Threshold optimisation: a reading is flagged when its score is at least
\* MaintenanceCost / (MaintenanceCost + FailureCost).
FailureRisk(score) ==
  score * (MaintenanceCost + FailureCost) >= MaintenanceCost * ScoreDen

NoPrediction == [none |-> TRUE]
NoLocals == [none |-> TRUE]

\* The component after its first render and the effect's first call of
\* makePrediction (lines 49-52, 110-111).
InitVisualizer(d) ==
  /\ sensorData = d
  /\ inflight = <<d>>
  /\ locals = NoLocals
  /\ prediction = NoPrediction
  /\ isLoading = TRUE
  /\ modelStatus = "healthy"

\* makePrediction up to its await (lines 55-59): the call keeps the prop of
\* the render it was created in.
StartPrediction(d) ==
  /\ isLoading' = TRUE
  /\ inflight' = Append(inflight, d)

\* The parent passes another sensorData: the effect runs again and calls
\* makePrediction (lines 110-117).
SetSensorData(d) ==
  /\ d # sensorData
  /\ Len(inflight) < MaxInFlight
  /\ sensorData' = d
  /\ StartPrediction(d)
  /\ UNCHANGED <<ingestVars, sensorsVars, locals, prediction, modelStatus>>

\* The interval fires (line 114).
Tick ==
  /\ Len(inflight) < MaxInFlight
  /\ StartPrediction(sensorData)
  /\ UNCHANGED <<ingestVars, sensorsVars, sensorData, locals, prediction, modelStatus>>

\* makePrediction after its await (lines 61-107); the time stamps
\* prediction_time and lastUpdate are left out.
FinishPrediction ==
  /\ inflight # <<>>
  /\ \E data \in (IF Head(inflight) = NoData THEN RandomReadings
                  ELSE {Head(inflight)}) :
       \E c \in Confidences :
         LET score == riskScore(data)
             p == failureProbability(score) IN
           /\ locals' = [data |-> data, tempDiff |-> tempDiff(data),
                         power |-> power(data), riskScore |-> score]
           /\ prediction' =
                [failure_probability |-> p, risk_level |-> riskLevel(p),
                 confidence |-> c, feature_importance |-> featureImportance,
                 model_type |-> "ensemble"]
           /\ modelStatus' = statusOf(p)
  /\ isLoading' = FALSE
  /\ inflight' = Tail(inflight)
  /\ UNCHANGED <<ingestVars, sensorsVars, sensorData>>

NextVisualizer ==
  \/ \E d \in Readings \cup {NoData} : SetSensorData(d)
  \/ Tick
  \/ FinishPrediction

\* ------------------------------------------------- GET /api/sensors
\* LIMIT of the getAllData query.
RowLimit == 100

\* The records the handler answers with when the query fails (numbers
\* written as their texts).
mockData ==
  <<[id |-> 1, type_h |-> "1", type_l |-> "0", type_m |-> "0",
    tool_wear |-> "45", rotation_speed |-> "1500", torque |-> "42.5",
    air_temp |-> "298.1", process_temp |-> "308.6", temp_diff |-> "10.5",
    power |-> "63750", prediction_label |-> "0",
    prediction_score |-> "0.12"],
   [id |-> 2, type_h |-> "0", type_l |-> "1", type_m |-> "0",
    tool_wear |-> "78", rotation_speed |-> "1420", torque |-> "45.2",
    air_temp |-> "299.5", process_temp |-> "310.2", temp_diff |-> "10.7",
    power |-> "64184", prediction_label |-> "0",
    prediction_score |-> "0.35"],
   [id |-> 3, type_h |-> "0", type_l |-> "0", type_m |-> "1",
    tool_wear |-> "112", rotation_speed |-> "1380", torque |-> "48.9",
    air_temp |-> "300.2", process_temp |-> "312.8", temp_diff |-> "12.6",
    power |-> "67482", prediction_label |-> "1",
    prediction_score |-> "0.78"],
   [id |-> 4, type_h |-> "1", type_l |-> "0", type_m |-> "0",
    tool_wear |-> "25", rotation_speed |-> "1550", torque |-> "38.1",
    air_temp |-> "297.8", process_temp |-> "307.2", temp_diff |-> "9.4",
    power |-> "59055", prediction_label |-> "0",
    prediction_score |-> "0.08"],
   [id |-> 5, type_h |-> "0", type_l |-> "1", type_m |-> "0",
    tool_wear |-> "95", rotation_speed |-> "1400", torque |-> "50.3",
    air_temp |-> "301.1", process_temp |-> "313.5", temp_diff |-> "12.4",
    power |-> "70420", prediction_label |-> "1",
    prediction_score |-> "0.65"],
   [id |-> 6, type_h |-> "1", type_l |-> "0", type_m |-> "0",
    tool_wear |-> "35", rotation_speed |-> "1520", torque |-> "40.2",
    air_temp |-> "298.5", process_temp |-> "308.1", temp_diff |-> "9.6",
    power |-> "61104", prediction_label |-> "0",
    prediction_score |-> "0.15"],
   [id |-> 7, type_h |-> "0", type_l |-> "0", type_m |-> "1",
    tool_wear |-> "88", rotation_speed |-> "1450", torque |-> "43.7",
    air_temp |-> "299.2", process_temp |-> "309.8", temp_diff |-> "10.6",
    power |-> "63365", prediction_label |-> "0",
    prediction_score |-> "0.42"],
   [id |-> 8, type_h |-> "0", type_l |-> "1", type_m |-> "0",
    tool_wear |-> "145", rotation_speed |-> "1320", torque |-> "55.2",
    air_temp |-> "302.4", process_temp |-> "316.1", temp_diff |-> "13.7",
    power |-> "72864", prediction_label |-> "1",
    prediction_score |-> "0.89"],
   [id |-> 9, type_h |-> "1", type_l |-> "0", type_m |-> "0",
    tool_wear |-> "55", rotation_speed |-> "1480", torque |-> "41.8",
    air_temp |-> "298.8", process_temp |-> "308.9", temp_diff |-> "10.1",
    power |-> "61864", prediction_label |-> "0",
    prediction_score |-> "0.22"],
   [id |-> 10, type_h |-> "0", type_l |-> "0", type_m |-> "1",
    tool_wear |-> "120", rotation_speed |-> "1360", torque |-> "52.1",
    air_temp |-> "301.5", process_temp |-> "314.2", temp_diff |-> "12.7",
    power |-> "70856", prediction_label |-> "1",
    prediction_score |-> "0.72"]>>

\* A stored row as SELECT * returns it: with its serial id.
WithId(row, id) ==
  [f \in (DOMAIN row) \cup {"id"} |-> IF f = "id" THEN id ELSE row[f]]

\* getAllData: SELECT * FROM process_data ORDER BY id DESC LIMIT 100.
getAllData ==
  [k \in 1..Min(Len(store), RowLimit) |->
     WithId(store[Len(store) + 1 - k], Len(store) + 1 - k)]

\* The handler with a catch that reports the failure.
sensorsReplyError(data) ==
  IF "threw" \in DOMAIN data
  THEN [status |-> 500, body |-> [error |-> "Database error"]]
  ELSE [status |-> 200, body |-> data.rows]

\* Lines 277-284: NextResponse.json(data), or NextResponse.json(mockData)
\* from the catch.
sensorsReply(data) ==
  IF "threw" \in DOMAIN data
  THEN [status |-> 200, body |-> mockData]
  ELSE [status |-> 200, body |-> data.rows]

\* A GET request arrives and the handler awaits getAllData().
SensorsGet ==
  /\ sensorsPc \in {"idle", "done"}
  /\ sensorsPc' = "getAllData"
  /\ sensorsData' = NoRows
  /\ sensorsResponse' = NoResponse
  /\ UNCHANGED <<ingestVars, mlVars>>

\* The query settles: with the rows of the table, or with an error when the
\* database cannot be reached.
QuerySettles ==
  /\ sensorsPc = "getAllData"
  /\ \E reachable \in BOOLEAN :
       sensorsData' = IF reachable THEN [rows |-> getAllData]
                      ELSE [threw |-> TRUE]
  /\ sensorsPc' = "settled"
  /\ UNCHANGED <<ingestVars, mlVars, sensorsResponse>>

\* The handler goes on after its await and answers.
SensorsRespond ==
  /\ sensorsPc = "settled"
  /\ sensorsResponse' = sensorsReply(sensorsData)
  /\ sensorsPc' = "done"
  /\ UNCHANGED <<ingestVars, mlVars, sensorsData>>

InitStore(f, u) ==
  /\ csvFile = f
  /\ uniqueKey = u
  /\ store = <<>>
  /\ alive = TRUE
  /\ promise = [r \in Runs |-> "none"]
  /\ result = [r \in Runs |-> NoResult]
  /\ response = [r \in Runs |-> NoResponse]
  /\ recordsToInsert = [r \in Runs |-> <<>>]
  /\ pos = [r \in Runs |-> 0]
  /\ pc = [r \in Runs |-> [i \in 1..Len(f) |-> "idle"]]
  /\ cancelled = [r \in Runs |-> FALSE]
  /\ sensorsPc = "idle"
  /\ sensorsData = NoRows
  /\ sensorsResponse = NoResponse

\* The documented schema: a serial primary key and no other constraint.
Init == (\E f \in Files : InitStore(f, FALSE)) /\ InitVisualizer(NoData)

\* The store the specification asks for: unique over the full field tuple.
InitUnique == (\E f \in Files : InitStore(f, TRUE)) /\ InitVisualizer(NoData)

\* ------------------------------------------------------------ store queries
\* recordExists: SELECT 1 ... WHERE <twelve equalities>; rowCount > 0.
recordExists(record) ==
  \E k \in 1..Len(store) : Matches(store[k], PgRow(Params(record)))

\* The unique index refuses a row that equals a stored one on every column.
UniqueViolation(record) ==
  uniqueKey /\ \E k \in 1..Len(store) : Matches(store[k], PgRow(Params(record)))

\* insertRecord as an upsert keyed on the machine type and tool wear: a
\* stored row with the same key is overwritten.
insertRecordUpsert(record) ==
  LET row == PgRow(Params(record))
      Key == {"type_h", "type_l", "type_m", "tool_wear"}
      hit == {k \in 1..Len(store) : \A f \in Key : SqlEq(store[k], row, f)}
  IN IF hit = {} THEN Append(store, row)
     ELSE [store EXCEPT ![CHOOSE k \in hit : TRUE] = row]

\* insertRecord: INSERT INTO process_data (<twelve columns>) VALUES (...).
insertRecord(record) == Append(store, PgRow(Params(record)))

\* --------------------------------------------------------------- actions
\* SkipRow as it would be if the cells were numbers: 0 is falsy too.
SkipRowNumeric(row) ==
  \/ DOMAIN row = {}
  \/ "type_h" \notin DOMAIN row
  \/ row["type_h"] \in {"", "0"}

\* Line 12 with its first test only: a row with keys is never skipped.
SkipRowKeysOnly(row) == DOMAIN row = {}

\* Line 12: the row is skipped when it has no keys or a falsy type_h.
SkipRow(row) ==
  \/ DOMAIN row = {}
  \/ "type_h" \notin DOMAIN row
  \/ row["type_h"] = ""

\* POST /csv/upload: the route calls processCSV, which opens the stream.
Upload(r) ==
  /\ alive
  /\ promise[r] = "none"
  /\ r > 1 => promise[r - 1] # "none"
  /\ promise' = [promise EXCEPT ![r] = "pending"]
  /\ UNCHANGED <<mlVars, sensorsVars, cancelled, csvFile, uniqueKey, store, alive, result, response,
                 recordsToInsert, pos, pc>>

\* 'data': the callback runs up to its first await (lines 12-19).
Data(r) ==
  /\ alive
  /\ promise[r] = "pending"
  /\ pos[r] < Len(csvFile)
  /\ LET i == pos[r] + 1 IN
       /\ pos' = [pos EXCEPT ![r] = i]
       /\ pc' = [pc EXCEPT ![r][i] =
                   IF SkipRow(csvFile[i]) THEN "skipped" ELSE "recordExists"]
  /\ UNCHANGED <<mlVars, sensorsVars, cancelled, csvFile, uniqueKey, store, alive, promise, result, response,
                 recordsToInsert>>

\* An await rejects inside the callback: nothing catches it, so it is an
\* unhandled rejection, on which the process exits unless told otherwise.
Throws(r, i, cause) ==
  /\ pc' = [pc EXCEPT ![r][i] = cause]
  /\ alive' \in BOOLEAN
  /\ UNCHANGED store

\* Line 19 with the answer of recordExists ignored: every row is inserted.
AfterExistsIgnored(found) == "insertRecord"

\* Line 19: if (!(await recordExists(row))) the callback goes on to insert.
AfterExists(found) == IF found THEN "exists" ELSE "insertRecord"

\* recordExists settles (line 19); on false the callback calls insertRecord.
ExistsReturn(r, i) ==
  /\ alive
  /\ pc[r][i] = "recordExists"
  /\ \E reachable \in BOOLEAN :
       IF ~reachable THEN Throws(r, i, "unavailable")
       ELSE IF ~ValidParams(Params(csvFile[i])) THEN Throws(r, i, "invalid")
       ELSE /\ pc' = [pc EXCEPT ![r][i] =
                        AfterExists(recordExists(csvFile[i]))]
            /\ UNCHANGED <<store, alive>>
  /\ UNCHANGED <<mlVars, sensorsVars, cancelled, csvFile, uniqueKey, promise, result, response,
                 recordsToInsert, pos>>

\* insertRecord settles (lines 20-21).
InsertReturn(r, i) ==
  /\ alive
  /\ pc[r][i] = "insertRecord"
  /\ \E reachable \in BOOLEAN :
       IF ~reachable THEN Throws(r, i, "unavailable")
       ELSE IF UniqueViolation(csvFile[i]) THEN Throws(r, i, "conflict")
       ELSE /\ store' = insertRecord(csvFile[i])
            /\ pc' = [pc EXCEPT ![r][i] = "inserted"]
            /\ UNCHANGED alive
  /\ UNCHANGED <<mlVars, sensorsVars, cancelled, csvFile, uniqueKey, promise, result, response,
                 recordsToInsert, pos>>

\* The value processCSV resolves with (line 28).
EndResult(r) ==
  [message |-> "CSV processing complete",
   newRecords |-> Len(recordsToInsert[r])]

\* 'end' (lines 26-29), then the route's continuation (csv.route.js line 10).
End(r) ==
  /\ alive
  /\ promise[r] = "pending"
  /\ pos[r] = Len(csvFile)
  /\ promise' = [promise EXCEPT ![r] = "resolved"]
  /\ result' = [result EXCEPT ![r] = EndResult(r)]
  /\ response' = [response EXCEPT ![r] =
                    [status |-> 200, message |-> "CSV processed successfully"]]
  /\ UNCHANGED <<mlVars, sensorsVars, cancelled, csvFile, uniqueKey, store, alive, recordsToInsert, pos, pc>>

\* 'error' on the csv parser (lines 30-33), then the route's catch (line 12);
\* the rejection value has no message property.
ParseError(r) ==
  /\ alive
  /\ promise[r] = "pending"
  /\ promise' = [promise EXCEPT ![r] = "rejected"]
  /\ result' = [result EXCEPT ![r] =
                  [error |-> "Failed to process CSV file"]]
  /\ response' = [response EXCEPT ![r] = [status |-> 500]]
  /\ UNCHANGED <<mlVars, sensorsVars, cancelled, csvFile, uniqueKey, store, alive, recordsToInsert, pos, pc>>

\* 'error' on the file stream: pipe() does not forward it and no listener is
\* attached to that stream (line 9), so it is thrown and the process exits.
ReadError(r) ==
  /\ alive
  /\ promise[r] = "pending"
  /\ alive' = FALSE
  /\ UNCHANGED <<mlVars, sensorsVars, cancelled, csvFile, uniqueKey, store, promise, result, response,
                 recordsToInsert, pos, pc>>

Next ==
  \/ \E r \in Runs : Upload(r)
  \/ \E r \in Runs : Data(r)
  \/ \E r \in Runs : \E i \in 1..Len(csvFile) : ExistsReturn(r, i)
  \/ \E r \in Runs : \E i \in 1..Len(csvFile) : InsertReturn(r, i)
  \/ \E r \in Runs : End(r)
  \/ \E r \in Runs : ParseError(r)
  \/ \E r \in Runs : ReadError(r)

Spec == Init /\ [][Next]_vars

\* The same program against a table with the unique index.
SpecUnique == InitUnique /\ [][Next]_vars

\* A client that posts the next upload only after the previous one was
\* answered.
UploadAfterResponse(r) ==
  /\ r > 1 => response[r - 1].status # 0
  /\ Upload(r)

NextSequential ==
  \/ \E r \in Runs : UploadAfterResponse(r)
  \/ \E r \in Runs : Data(r)
  \/ \E r \in Runs : \E i \in 1..Len(csvFile) : ExistsReturn(r, i)
  \/ \E r \in Runs : \E i \in 1..Len(csvFile) : InsertReturn(r, i)
  \/ \E r \in Runs : End(r)
  \/ \E r \in Runs : ParseError(r)
  \/ \E r \in Runs : ReadError(r)

SpecSequential == Init /\ [][NextSequential]_vars

\* The event loop runs whatever is ready: a step is taken as long as one is
\* possible.
SpecLive == Init /\ [][Next]_vars /\ WF_vars(Next)

\* The client of an upload closes the connection before the answer: the
\* route registers no listener on the request and processCSV takes no signal.
Cancel(r) ==
  /\ alive
  /\ promise[r] = "pending"
  /\ ~cancelled[r]
  /\ cancelled' = [cancelled EXCEPT ![r] = TRUE]
  /\ UNCHANGED <<mlVars, sensorsVars, csvFile, uniqueKey, store, alive, promise,
                 result, response, recordsToInsert, pos, pc>>

NextCancel ==
  \/ Next
  \/ \E r \in Runs : Cancel(r)

\* Uploads whose clients may give up.
SpecCancel == Init /\ [][NextCancel]_vars

NextSensors ==
  \/ Upload(1)
  \/ Data(1)
  \/ \E i \in 1..Len(csvFile) : ExistsReturn(1, i)
  \/ \E i \in 1..Len(csvFile) : InsertReturn(1, i)
  \/ End(1)
  \/ SensorsGet
  \/ QuerySettles
  \/ SensorsRespond

\* The dashboard polling GET /api/sensors while one upload fills the table.
SpecSensors == Init /\ [][NextSensors]_vars

InitVisualizerSpec ==
  /\ InitStore(<<RowA>>, FALSE)
  /\ \E d \in Readings \cup {NoData} : InitVisualizer(d)

\* The visualizer alone, no upload being made.
SpecVisualizer == InitVisualizerSpec /\ [][NextVisualizer]_vars

\* ---------------------------------------------------------------- claims
RowIds == 1..Len(csvFile)

\* The reading a row denotes, as the store would hold it.
Reading(i) == PgRow(Params(csvFile[i]))

\* A row that passes line 12 and carries a numeric cell that is no number.
Malformed(i) == ~SkipRow(csvFile[i]) /\ ~ValidParams(Params(csvFile[i]))

\* C1: the store never holds two rows equal on all twelve persisted fields,
\* whatever the interleaving of ingestion runs and of the rows of one batch.
C1_NoDuplicateRows ==
  \A j, k \in 1..Len(store) : j < k => store[j] # store[k]

\* C2: an ingestion of the same file that starts after an earlier ingestion
\* reported completion inserts no row, and the store does not change while
\* it runs (so its contents afterwards are those after the earlier run).
C2_SecondIngestionAddsNothing ==
  /\ [](\A r \in Runs : \A i \in RowIds :
          (r > 1 /\ promise[r - 1] = "resolved")
            => pc[r][i] \notin {"insertRecord", "inserted"})
  /\ [][\A r \in Runs :
          (r > 1 /\ promise[r - 1] = "resolved" /\ promise[r] = "pending")
            => store' = store]_vars

\* The callbacks that have submitted the reading of row i of some run.
Workers(v) ==
  {w \in Runs \X RowIds :
     /\ ~SkipRow(csvFile[w[2]]) /\ ~Malformed(w[2])
     /\ Reading(w[2]) = v
     /\ pc[w[1]][w[2]] # "idle"}

\* C3: against a store with the uniqueness guarantee, once the N workers that
\* submitted one reading have all finished (the store having been reachable),
\* exactly one has the outcome Inserted, the others Duplicate, and the store
\* holds exactly one row for the reading.
C3_OneInsertedRestDuplicate ==
  \A i \in RowIds :
    LET W == Workers(Reading(i)) IN
      (W # {} /\ \A w \in W : pc[w[1]][w[2]] \in Finished \ {"unavailable"})
        => /\ Cardinality({w \in W : pc[w[1]][w[2]] = "inserted"}) = 1
           /\ \A w \in W : pc[w[1]][w[2]] \in {"inserted", "exists"}
           /\ Cardinality({k \in 1..Len(store) : store[k] = Reading(i)}) = 1

\* C4: when processCSV has produced its result (and the route has answered
\* 200), no row of the batch has a store call pending or not yet issued.
C4_CompletionAfterAllRows ==
  \A r \in Runs :
    promise[r] = "resolved"
      => \A i \in RowIds : pc[r][i] \notin Pending \cup {"idle"}

\* The outcome a finished callback stands for in the batch result.
Outcome(p) ==
  CASE p = "inserted" -> "Inserted"
    [] p = "exists" -> "Duplicate"
    [] p = "skipped" -> "SkippedEmptyRow"
    [] OTHER -> "Exception"

\* C5: a malformed row never escapes as an exception: once its processing
\* has ended (the store being reachable) its outcome is Rejected.
C5_MalformedRowRejected ==
  \A r \in Runs : \A i \in RowIds :
    (Malformed(i) /\ pc[r][i] \in Finished \ {"unavailable"})
      => Outcome(pc[r][i]) = "Rejected"

\* C6: a run one of whose store calls failed because the store could not be
\* reached is never answered 200, and its failure response carries the
\* outcomes of the rows processed before.
C6_OutageSurfaced ==
  \A r \in Runs :
    (\E i \in RowIds : pc[r][i] = "unavailable")
      => /\ response[r].status # 200
         /\ response[r].status = 500 => "outcomes" \in DOMAIN response[r]

\* C7: once a store call of a batch has failed with StoreUnavailable, no
\* further recordExists or insertRecord call is issued for that batch.
C7_NoCallAfterOutage ==
  [][\A r \in Runs :
       (\E i \in RowIds : pc[r][i] = "unavailable")
         => \A j \in RowIds :
              /\ pc[r][j] = "idle" => pc'[r][j] # "recordExists"
              /\ pc[r][j] = "recordExists" => pc'[r][j] # "insertRecord"]_vars

\* C8: the result of a completed batch holds one outcome per input row and
\* counts of inserted, duplicate and rejected rows that sum to the number
\* of input rows.
C8_FullAccounting ==
  \A r \in Runs :
    promise[r] = "resolved"
      => /\ {"outcomes", "inserted", "duplicate", "rejected"}
              \subseteq DOMAIN result[r]
         /\ Len(result[r].outcomes) = Len(csvFile)
         /\ result[r].inserted + result[r].duplicate + result[r].rejected
              = Len(csvFile)

\* C9: the inserted count a run returns (newRecords) equals the number of
\* rows the run inserted into the store.
C9_NewRecordsCount ==
  \A r \in Runs :
    promise[r] = "resolved"
      => result[r].newRecords
           = Cardinality({i \in RowIds : pc[r][i] = "inserted"})

\* C10: recordExists(r) answers true exactly when the store holds a row
\* equal to r on every one of the twelve persisted fields.
C10_ExistsIffEqualRow ==
  \A i \in RowIds :
    (~SkipRow(csvFile[i]) /\ ~Malformed(i))
      => (recordExists(csvFile[i])
            <=> \E k \in 1..Len(store) : store[k] = Reading(i))

\* C11: when the store refuses an insert for a uniqueness violation, the
\* row's outcome is Duplicate: nothing is raised and the process goes on.
C11_ConflictIsDuplicate ==
  \A r \in Runs : \A i \in RowIds :
    pc[r][i] = "conflict" => (Outcome(pc[r][i]) = "Duplicate" /\ alive)

\* The row has no cell with content.
EntirelyEmpty(row) == \A f \in DOMAIN row : row[f] = ""

\* The row has no machine-type cell, or an empty one.
LacksMachineType(row) == "type_h" \notin DOMAIN row \/ row["type_h"] = ""

\* C12: a row is skipped exactly when it is entirely empty or lacks the
\* machine-type field (so a type-L row whose type_h is "0" is processed), and
\* skipping a row is not fatal: the process and the stream go on and the
\* store is untouched.
C12_SkippedExactlyEmptyRows ==
  /\ [](\A r \in Runs : \A i \in RowIds :
          /\ pc[r][i] = "skipped"
               => (EntirelyEmpty(csvFile[i]) \/ LacksMachineType(csvFile[i]))
          /\ pc[r][i] \notin {"idle", "skipped"}
               => ~(EntirelyEmpty(csvFile[i]) \/ LacksMachineType(csvFile[i]))
          /\ ("type_h" \in DOMAIN csvFile[i] /\ csvFile[i]["type_h"] = "0")
               => pc[r][i] # "skipped")
  /\ [][\A r \in Runs : \A i \in RowIds :
          (pc[r][i] = "idle" /\ pc'[r][i] = "skipped")
            => (alive' /\ promise'[r] = "pending" /\ store' = store)]_vars

\* A run skipped its first row and then inserted a type-L row whose type_h
\* is "0".
C12_Witness ==
  \E r \in Runs :
    /\ Len(csvFile) = 2
    /\ pc[r][1] = "skipped"
    /\ pc[r][2] = "inserted"
    /\ csvFile[2]["type_h"] = "0"
    /\ csvFile[2]["type_l"] = "1"

\* The type indicators select exactly one machine type.
ExactlyOneType(row) ==
  Cardinality({f \in {"type_h", "type_l", "type_m"} :
                 f \in DOMAIN row /\ row[f] = "1"}) = 1

\* C13: a row one of whose numeric fields is no number, or whose type
\* indicators do not select exactly one type, is never checked against or
\* written to the store.
C13_InvalidRowNeverReachesStore ==
  \A r \in Runs : \A i \in RowIds :
    (~SkipRow(csvFile[i])
       /\ ~(ValidParams(Params(csvFile[i])) /\ ExactlyOneType(csvFile[i])))
      => pc[r][i] = "idle"

\* The fields the pipeline is to compute when the file lacks them.
DerivedFields == {"temp_diff", "power", "prediction_label", "prediction_score"}

\* C14: no record is looked up or persisted with temp_diff, power,
\* prediction_label or prediction_score missing.
C14_DerivedFieldsPresent ==
  /\ \A r \in Runs : \A i \in RowIds :
       pc[r][i] \in Pending \cup {"exists", "inserted"}
         => DerivedFields \subseteq DOMAIN Params(csvFile[i])
  /\ \A k \in 1..Len(store) : DerivedFields \subseteq DOMAIN store[k]

Predicted == prediction # NoPrediction

\* C15: the score makePrediction computes equals, on every input, the
\* reference 0.4*min(tool_wear/250, 1) + 0.3*min(max(temp_diff - 8, 0)/12, 1)
\* + 0.3*min(power/15000, 1), clamped to at most 0.99.
C15_ScoreIsWeightedReference ==
  Predicted
    => prediction.failure_probability
         = Min(riskScoreWeighted(locals.data), (99 * ScoreDen) \div 100)

\* C16: the risk level is decided by lower-inclusive bands of the score:
\* at least 0.70 critical, 0.50 up to 0.70 high, 0.30 up to 0.50 medium,
\* below 0.30 low.
C16_LowerInclusiveBands ==
  Predicted =>
    LET p == prediction.failure_probability
        l == prediction.risk_level IN
      /\ l \in {"critical", "high", "medium", "low"}
      /\ (l = "critical") <=> (100 * p >= 70 * ScoreDen)
      /\ (l = "high") <=> (100 * p >= 50 * ScoreDen /\ 100 * p < 70 * ScoreDen)
      /\ (l = "medium") <=> (100 * p >= 30 * ScoreDen /\ 100 * p < 50 * ScoreDen)
      /\ (l = "low") <=> (100 * p < 30 * ScoreDen)

\* A score of exactly 0.70 has been classified.
C16_Witness ==
  /\ Predicted
  /\ 100 * prediction.failure_probability = 70 * ScoreDen
  /\ prediction.risk_level = "critical"

Rank(l) ==
  CASE l = "low" -> 0 [] l = "medium" -> 1 [] l = "high" -> 2
    [] l = "critical" -> 3

LessWorn(a) ==
  {b \in Readings :
     /\ b.tool_wear < a.tool_wear
     /\ [b EXCEPT !.tool_wear = a.tool_wear] = a}

\* C19: a reading scores at least as high as every reading that differs from
\* it only by a lower tool wear, and its risk level is not lower.
C19_MonotoneInToolWear ==
  Predicted =>
    \A b \in LessWorn(locals.data) :
      /\ prediction.failure_probability >= failureProbability(riskScore(b))
      /\ Rank(prediction.risk_level)
           >= Rank(riskLevel(failureProbability(riskScore(b))))

\* A worn tool has been scored strictly above the same reading with a new tool.
C19_Witness ==
  /\ Predicted
  /\ \E b \in LessWorn(locals.data) :
       prediction.failure_probability > failureProbability(riskScore(b))

\* C20: the temperature differential is process temperature minus air
\* temperature, negative values kept, and the derivation cannot fail.
C20_DifferentialUnclamped ==
  /\ locals # NoLocals
       => locals.tempDiff
            = locals.data.process_temperature - locals.data.air_temperature
  /\ inflight # <<>> => ENABLED FinishPrediction

\* A reading whose process temperature is below its air temperature.
C20_Witness ==
  /\ locals # NoLocals
  /\ locals.data.process_temperature < locals.data.air_temperature
  /\ locals.tempDiff < 0

\* C21: the outcomes of a batch result are in input order: the k-th outcome
\* of a completed run is the outcome of input row k, whatever order the
\* rows' store calls completed in.
C21_OutcomesInInputOrder ==
  \A r \in Runs :
    promise[r] = "resolved"
      => /\ "outcomes" \in DOMAIN result[r]
         /\ \A k \in 1..Len(result[r].outcomes) : result[r].outcomes[k].row = k

\* C22: after the cancellation of a run no new row of it is started, and the
\* run's result is the partial result holding the outcomes of the rows that
\* were started.
C22_CancelStopsNewRows ==
  /\ [][\A r \in Runs : \A i \in RowIds :
          (cancelled[r] /\ pc[r][i] = "idle") => pc'[r][i] = "idle"]_vars
  /\ [](\A r \in Runs :
          (cancelled[r] /\ promise[r] = "resolved")
            => /\ "outcomes" \in DOMAIN result[r]
               /\ Len(result[r].outcomes)
                    = Cardinality({i \in RowIds : pc[r][i] # "idle"}))

\* C23: no step updates or deletes a stored record: every row of the store
\* is still there, with the same field values, after each step, so the store
\* only grows.
C23_StoreOnlyGrows ==
  [][/\ Len(store') >= Len(store)
     /\ \A k \in 1..Len(store) : store'[k] = store[k]]_vars

\* A second row was inserted and the first is still stored as it was read.
C23_Witness ==
  /\ Len(store) = 2
  /\ \E r \in Runs :
       /\ Len(csvFile) = 2
       /\ pc[r][1] = "inserted" /\ pc[r][2] = "inserted"
       /\ Reading(1) \in {store[1], store[2]}
       /\ Reading(2) \in {store[1], store[2]}
       /\ Reading(1) # Reading(2)

\* The fate of row i when the rows of the file are processed strictly one
\* after another against an initially empty, reachable store.
SequentialOutcome(i) ==
  IF SkipRow(csvFile[i]) THEN "skipped"
  ELSE IF \E j \in 1..(i - 1) :
            ~SkipRow(csvFile[j]) /\ Matches(Reading(j), Reading(i))
       THEN "exists"
       ELSE "inserted"

\* C24: the result of a batch does not depend on the concurrency level: a
\* run whose rows were processed under some interleaving ends with the same
\* set of stored field tuples and the same numbers of Inserted and Duplicate
\* outcomes as the strictly sequential processing of the same file.
C24_SameAsSequential ==
  ((\A r \in Runs \ {1} : promise[r] = "none")
     /\ \A i \in RowIds : pc[1][i] \in {"skipped", "exists", "inserted"})
    => /\ {store[k] : k \in 1..Len(store)}
            = {Reading(i) : i \in {j \in RowIds : SequentialOutcome(j) = "inserted"}}
       /\ \A o \in {"inserted", "exists"} :
            Cardinality({i \in RowIds : pc[1][i] = o})
              = Cardinality({i \in RowIds : SequentialOutcome(i) = o})

\* C25: insertRecord is issued for a row only when that row's recordExists
\* call has just returned false, and a row whose recordExists call returned
\* true is never inserted.
C25_InsertOnlyAfterNotFound ==
  [][\A r \in Runs : \A i \in RowIds :
       /\ (pc'[r][i] = "insertRecord" /\ pc[r][i] # "insertRecord")
            => (pc[r][i] = "recordExists"
                  /\ ~(\E k \in 1..Len(store) :
                         Matches(store[k], Reading(i))))
       /\ (pc'[r][i] = "inserted" /\ pc[r][i] # "inserted")
            => pc[r][i] = "insertRecord"
       /\ (pc'[r][i] = "exists" /\ pc[r][i] # "exists")
            => (pc[r][i] = "recordExists"
                  /\ \E k \in 1..Len(store) : Matches(store[k], Reading(i)))
       /\ pc[r][i] = "exists" => pc'[r][i] = "exists"]_vars

\* One row was inserted after its lookup found nothing, and an equal row
\* was found and left alone.
C25_Witness ==
  \E r, q \in Runs : \E i, j \in RowIds :
    /\ pc[r][i] = "inserted"
    /\ pc[q][j] = "exists"
    /\ Reading(i) = Reading(j)
    /\ Len(store) = 1

\* C26: a row skipped as empty issues no store call, a row found to exist
\* issues no write, and neither changes the store: an empty row never gets
\* beyond "skipped", the steps that end a callback as skipped or as existing
\* leave the store as it was, and the callback does nothing afterwards.
C26_SkipAndFoundLeaveStore ==
  /\ [](\A r \in Runs : \A i \in RowIds :
          (EntirelyEmpty(csvFile[i]) \/ LacksMachineType(csvFile[i]))
            => pc[r][i] \in {"idle", "skipped"})
  /\ [][\A r \in Runs : \A i \in RowIds :
          /\ (pc[r][i] # pc'[r][i] /\ pc'[r][i] \in {"skipped", "exists"})
               => store' = store
          /\ pc[r][i] \in {"skipped", "exists"} => pc'[r][i] = pc[r][i]]_vars

\* A run skipped its first row and found its second row stored already.
C26_Witness ==
  \E r \in Runs :
    /\ Len(csvFile) = 2
    /\ pc[r][1] = "skipped"
    /\ pc[r][2] = "exists"
    /\ Len(store) = 1

\* C27: the promise processCSV returns is eventually settled, and settled
\* once: a pending promise is eventually resolved or rejected, and a settled
\* promise keeps its state.
C27_SettledExactlyOnce ==
  /\ \A r \in Runs :
       (promise[r] = "pending") ~> (promise[r] \in {"resolved", "rejected"})
  /\ [][\A r \in Runs :
          promise[r] \in {"resolved", "rejected"} => promise'[r] = promise[r]]_vars

\* C28: classification is deterministic: when a reading is classified again
\* right after it was classified, the failure probability, the risk level
\* and the feature weights come out as before, whatever was predicted
\* earlier.
C28_SameReadingSamePrediction ==
  [][(Predicted /\ prediction' # NoPrediction /\ locals'.data = locals.data)
       => /\ prediction'.failure_probability = prediction.failure_probability
          /\ prediction'.risk_level = prediction.risk_level
          /\ prediction'.feature_importance = prediction.feature_importance]_vars

\* A reading has been classified with a positive probability and a second
\* call with the same reading is waiting.
C28_Witness ==
  /\ Predicted
  /\ inflight # <<>>
  /\ Head(inflight) = locals.data
  /\ prediction.failure_probability > 0

\* C29: with the reference costs every reading labelled medium, high or
\* critical is flagged failure-risk, and the flag and the label disagree
\* only for readings labelled low whose score is at least the threshold
\* and below 0.30.
C29_FlagCoversRiskLevels ==
  Predicted =>
    LET p == prediction.failure_probability
        l == prediction.risk_level IN
      /\ l \in {"medium", "high", "critical"} => FailureRisk(p)
      /\ (FailureRisk(p) # (l # "low"))
           => /\ l = "low"
              /\ p * (MaintenanceCost + FailureCost) >= MaintenanceCost * ScoreDen
              /\ 100 * p < 30 * ScoreDen

\* A flagged reading labelled low: score 0.2.
C29_Witness ==
  /\ Predicted
  /\ prediction.risk_level = "low"
  /\ FailureRisk(prediction.failure_probability)
  /\ 10 * prediction.failure_probability = 2 * ScoreDen

\* C30: the sensors GET handler never surfaces a store failure: it always
\* answers 200, with the ten mock records when getAllData threw and with
\* exactly the rows the query returned (the newest rows of the table,
\* newest first) otherwise.
C30_SensorsNeverFail ==
  /\ [](/\ sensorsResponse.status \in {0, 200}
        /\ sensorsPc = "done"
             => /\ sensorsResponse.status = 200
                /\ "threw" \in DOMAIN sensorsData
                     => (sensorsResponse.body = mockData
                           /\ Len(sensorsResponse.body) = 10)
                /\ "rows" \in DOMAIN sensorsData
                     => sensorsResponse.body = sensorsData.rows)
  /\ [][(sensorsPc = "getAllData" /\ "rows" \in DOMAIN sensorsData')
          => /\ Len(sensorsData'.rows) = Min(Len(store), RowLimit)
             /\ \A k \in 1..Len(sensorsData'.rows) :
                  LET row == sensorsData'.rows[k]
                      id == Len(store) + 1 - k IN
                    /\ row.id = id
                    /\ \A f \in DOMAIN store[id] : row[f] = store[id][f]]_vars

\* The query failed while the table held a row, and the mock data went out.
C30_Witness ==
  /\ sensorsPc = "done"
  /\ "threw" \in DOMAIN sensorsData
  /\ sensorsResponse.body = mockData
  /\ Len(store) > 0

====
